---- MODULE Spec2Model ----
(***************************************************************************)
(* Model of libcloud/loadbalancer/drivers/elb.py (ElasticLBDriver).        *)
(*                                                                         *)
(* Python values are tagged records so that an int and its decimal text    *)
(* are different values (80 # '80').  A Python str is a sequence of        *)
(* one-character strings; dict keys built from literal templates are kept  *)
(* as TLA+ strings.                                                        *)
(***************************************************************************)
EXTENDS Integers, Sequences, FiniteSets, TLC

(* ------------------------------ bounds -------------------------------- *)

\* longest member list a balancer object may carry
MaxMembers == 3

(* --------------------------- Python values ---------------------------- *)

PyNone == [type |-> "none", int |-> 0, str |-> <<>>, items |-> <<>>]

PyInt(n) == [type |-> "int", int |-> n, str |-> <<>>, items |-> <<>>]

PyStr(s) == [type |-> "str", int |-> 0, str |-> s, items |-> <<>>]

PyList(xs) == [type |-> "list", int |-> 0, str |-> <<>>, items |-> xs]

\* bool(v)
Truthy(v) ==
    CASE v.type = "none" -> FALSE
      [] v.type = "int"  -> v.int # 0
      [] v.type = "str"  -> v.str # <<>>
      [] v.type = "list" -> v.items # <<>>

Digits == <<"0", "1", "2", "3", "4", "5", "6", "7", "8", "9">>

RECURSIVE DecStr(_)
\* decimal text of a non-negative int, as a sequence of characters
DecStr(n) ==
    IF n < 10 THEN <<Digits[n + 1]>>
    ELSE DecStr(n \div 10) \o <<Digits[(n % 10) + 1]>>

\* str(v)
str(v) ==
    CASE v.type = "int"  -> PyStr(DecStr(v.int))
      [] v.type = "str"  -> v
      [] v.type = "none" -> PyStr(<<"N", "o", "n", "e">>)

Lower == <<"a", "b", "c", "d", "e", "f", "g", "h", "i", "j", "k", "l", "m",
           "n", "o", "p", "q", "r", "s", "t", "u", "v", "w", "x", "y", "z">>

Upper == <<"A", "B", "C", "D", "E", "F", "G", "H", "I", "J", "K", "L", "M",
           "N", "O", "P", "Q", "R", "S", "T", "U", "V", "W", "X", "Y", "Z">>

UpperChar(c) ==
    IF \E k \in 1..Len(Lower) : Lower[k] = c
    THEN Upper[CHOOSE k \in 1..Len(Lower) : Lower[k] = c]
    ELSE c

\* s.upper()
upper(s) == PyStr([k \in 1..Len(s.str) |-> UpperChar(s.str[k])])

\* label % (i): the templates used all end in, or contain one, %d
Fmt(prefix, i, suffix) == prefix \o ToString(i) \o suffix

\* dict with params[k] = v set (later assignment wins)
SetItem(params, k, v) == (k :> v) @@ params

(* ------------------------- fixed input universe ----------------------- *)

\* balancer names the caller uses
Names == {<<"l", "b", "1">>, <<"l", "b", "2">>}

\* order in which the provider describes its balancers
NameOrder == << <<"l", "b", "1">>, <<"l", "b", "2">> >>

\* compute-node (instance) ids
Nodes == {<<"i", "1">>, <<"i", "2">>}

\* the region the driver was constructed with (self.region)
Region == <<"e", "u", "1">>

(* ------------------------------- state -------------------------------- *)

VARIABLES
    provider,   \* what the remote service holds, per balancer name
    balancers,  \* LoadBalancer objects the caller keeps, by variable
    lists,      \* Python list objects (the _members lists); index = identity
    held,       \* the list the caller last got from balancer_list_members
    call,       \* the last operation called, with its arguments
    result,     \* how that call ended
    status,     \* HTTP status of the response it got; 0 when it got none
    requests    \* parameter maps that call handed to connection.request

vars == <<provider, balancers, lists, held, call, result, status, requests>>

\* The variables in which the caller keeps the balancers it works with.  The
\* LoadBalancer objects share nothing but the provider, so one is followed.
CallerVars == {"b"}

\* one more list object than balancers: the caller may hold on to a stale one
NLists == Cardinality(CallerVars) + 1

DriverRef == [kind |-> "ElasticLBDriver", oid |-> ""]

BalancerRef(oid) == [kind |-> "LoadBalancer", oid |-> oid]

\* Member(id, ip, port, balancer=...)
Member(id, ip, port, balancer) ==
    [id |-> id, ip |-> ip, port |-> port, balancer |-> balancer]

\* LoadBalancer(id, name, state, ip, port, driver); _members is set right after
LoadBalancer(id, name, state, ip, port, driver) ==
    [id |-> id, name |-> name, state |-> state, ip |-> ip, port |-> port,
     driver |-> driver, members |-> 0]

FreeList == [live |-> FALSE, items |-> <<>>]

\* identity of a newly built list object
Alloc(ls) == CHOOSE r \in DOMAIN ls : ~ls[r].live /\ \A q \in DOMAIN ls : q < r => ls[q].live

\* reference counting: a list nobody refers to any more is gone
Collect(ls, bs, h) ==
    [r \in DOMAIN ls |->
        IF h.ref = r \/ \E o \in DOMAIN bs : bs[o].members = r THEN ls[r] ELSE FreeList]

NoHeld == [ref |-> 0, b |-> ""]

\* a variable of the caller that holds no balancer
NoObject == [id |-> PyNone, name |-> PyNone, state |-> "", ip |-> PyNone, port |-> PyNone,
             driver |-> [kind |-> "", oid |-> ""], members |-> 0]

Objects == {o \in DOMAIN balancers : balancers[o] # NoObject}

NoValue == [kind |-> "none", bool |-> FALSE, obj |-> "", objs |-> <<>>, list |-> 0]

Return(v) == [outcome |-> "return", exc |-> "", value |-> v]

Raise(e) == [outcome |-> "raise", exc |-> e, value |-> NoValue]

BoolValue(b) == [NoValue EXCEPT !.kind = "bool", !.bool = b]

ObjValue(o) == [NoValue EXCEPT !.kind = "balancer", !.obj = o]

ObjsValue(os) == [NoValue EXCEPT !.kind = "balancers", !.objs = os]

ListValue(r) == [NoValue EXCEPT !.kind = "list", !.list = r]

\* a str literal of the source that nothing takes apart is kept whole
Literal(s) == PyStr(<<s>>)

(* ------------------------ transport and provider ---------------------- *)

Absent == [exists |-> FALSE, port |-> <<>>, instances |-> <<>>]

\* the DNS name the provider assigns
DNSNameOf(name) == name \o <<".", "e", "l", "b">>

InSeq(x, s) == \E k \in DOMAIN s : s[k] = x

\* whether the provider answers the request without an error response
Accepts(params, prov) ==
    LET action == params["Action"]
        name   == params["LoadBalancerName"].str
    IN  CASE action = Literal("CreateLoadBalancer") -> ~prov[name].exists
          [] action = Literal("RegisterInstancesWithLoadBalancer") -> prov[name].exists
          [] action = Literal("DeregisterInstancesFromLoadBalancer") -> prov[name].exists
          [] OTHER -> TRUE

\* what the provider holds after a request it accepted
Stored(params, prov) ==
    LET action == params["Action"]
        name   == params["LoadBalancerName"].str
        inst   == params["Instances.member.1.InstanceId"].str
    IN  CASE action = Literal("CreateLoadBalancer") ->
               [prov EXCEPT ![name] =
                   [exists |-> TRUE,
                    port |-> params["Listeners.member.1.LoadBalancerPort"].str,
                    instances |-> <<>>]]
          [] action = Literal("DeleteLoadBalancer") ->
               [prov EXCEPT ![name] = Absent]
          [] action = Literal("RegisterInstancesWithLoadBalancer") ->
               [prov EXCEPT ![name].instances =
                   IF InSeq(inst, @) THEN @ ELSE Append(@, inst)]
          [] action = Literal("DeregisterInstancesFromLoadBalancer") ->
               [prov EXCEPT ![name].instances = SelectSeq(@, LAMBDA x : x # inst)]
          [] OTHER -> prov

\* one member element of DescribeLoadBalancersResult/LoadBalancerDescriptions
Description(name, prov) ==
    [LoadBalancerName |-> name,
     DNSName |-> DNSNameOf(name),
     LoadBalancerPort |-> prov[name].port,
     InstanceIds |-> prov[name].instances]

\* the member elements a describe request is answered with
Described(params, prov) ==
    LET wanted == IF "LoadBalancerNames.member.1" \in DOMAIN params
                  THEN {params["LoadBalancerNames.member.1"].str}
                  ELSE Names
        keep(n) == n \in wanted /\ prov[n].exists
        names == SelectSeq(NameOrder, keep)
    IN  [k \in 1..Len(names) |-> Description(names[k], prov)]

\* httplib.OK
OK == 200

HTTPStatuses == {OK, 201, 400}

\* requests whose response status the driver reads; the status of any other
\* response is not followed
StatusRead ==
    {Literal("CreateLoadBalancerPolicy"), Literal("DeleteLoadBalancerPolicy"),
     Literal("SetLoadBalancerPoliciesOfListener"),
     Literal("SetLoadBalancerPoliciesForBackendServer"),
     Literal("CreateLoadBalancerListeners")}

\* self.connection.request(ROOT, params): every way the call can end, a raised
\* error or a response (its status and its parsed document: the member
\* elements described and the DNSName assigned)
Replies(params, prov) ==
    [raised : {TRUE}, status : {0}, entries : {<<>>}, dns : {<<>>}]
    \cup
    IF ~Accepts(params, prov) THEN {}
    ELSE [raised : {FALSE},
          status : IF params["Action"] \in StatusRead THEN HTTPStatuses ELSE {OK},
          entries : IF params["Action"] = Literal("DescribeLoadBalancers")
                    THEN {Described(params, prov)} ELSE {<<>>},
          dns : IF params["Action"] = Literal("CreateLoadBalancer")
                THEN {DNSNameOf(params["LoadBalancerName"].str)} ELSE {<<>>}]

\* findtext(element=el, xpath=..., namespace=NS): the text of the child
findtext(text) == PyStr(text)

(* ------------------------------ the heap ------------------------------ *)

\* list.append(m): the list object itself grows
append(ls, r, m) == [ls EXCEPT ![r].items = Append(@, m)]

\* faulty variant: the members are replaced inside the list object the balancer has
set_members_in_place(bs, ls, h, b, items) ==
    LET old  == bs[b].members
        slot == IF old # 0 THEN old ELSE Alloc(ls)
        bs2  == [bs EXCEPT ![b].members = slot]
        ls2  == [ls EXCEPT ![slot] = [live |-> TRUE, items |-> items]]
    IN  [balancers |-> bs2, lists |-> Collect(ls2, bs2, h)]

\* balancer._members = <a new list holding items>, for the balancer bs[b]
set_members(bs, ls, h, b, items) ==
    LET old  == bs[b].members
        slot == IF old # 0 /\ h.ref # old THEN old ELSE Alloc(ls)
        bs2  == [bs EXCEPT ![b].members = slot]
        ls2  == [ls EXCEPT ![slot] = [live |-> TRUE, items |-> items]]
    IN  [balancers |-> bs2, lists |-> Collect(ls2, bs2, h)]

\* faulty variant: list.remove, which takes out the first match only
without_first(items, member) ==
    IF \E k \in DOMAIN items : items[k].id = member.id
    THEN LET k == CHOOSE k \in DOMAIN items :
                    items[k].id = member.id /\ \A j \in 1..(k - 1) : items[j].id # member.id
         IN  SubSeq(items, 1, k - 1) \o SubSeq(items, k + 1, Len(items))
    ELSE items

\* [m for m in balancer._members if m.id != member.id]
without(items, member) == SelectSeq(items, LAMBDA m : m.id # member.id)

\* the caller assigns a returned balancer to its variable v: what v held before,
\* and a member list obtained from it, are dropped
keep(bs, ls, h, v, balancer, items) ==
    LET h2  == IF h.b = v THEN NoHeld ELSE h
        bs1 == [bs EXCEPT ![v] = balancer]
        ls1 == Collect(ls, bs1, h2)
        new == set_members(bs1, ls1, h2, v, <<>>)
        r   == new.balancers[v].members
    IN  [balancers |-> new.balancers,
         lists |-> [new.lists EXCEPT ![r].items = items],
         held |-> h2]

(* ------------------------------ parsing ------------------------------- *)

\* the Member objects _to_balancer appends, for the InstanceId elements found
parsed_members(ids, balancer) ==
    [k \in 1..Len(ids) |-> Member(findtext(ids[k]), PyNone, PyNone, balancer)]

\* the LoadBalancer built from one member element, and the items of its
\* _members list; oid is the identity of the object built
_to_balancer(el, oid) ==
    LET name     == findtext(el.LoadBalancerName)
        dns_name == findtext(el.DNSName)
        port     == findtext(el.LoadBalancerPort)
        balancer == LoadBalancer(name, name, "UNKNOWN", dns_name, port, DriverRef)
    IN  [balancer |-> balancer,
         members |-> parsed_members(el.InstanceIds, BalancerRef(oid))]

_to_balancers(data, oid) == [k \in 1..Len(data) |-> _to_balancer(data[k], oid)]

(* ----------------------------- operations ----------------------------- *)

\* params[label % (index + 1)] = item, for index, item in enumerate(items)
list_params(params, items, prefix, suffix) ==
    LET RECURSIVE put(_, _)
        put(ps, k) == IF k > Len(items) THEN ps
                      ELSE put(SetItem(ps, Fmt(prefix, k, suffix), items[k]), k + 1)
    IN  put(params, 1)

\* faulty variant: the instance side carries the protocol as given
create_balancer_params_as_given(name, port, protocol, zones) ==
    LET params == ("Action" :> Literal("CreateLoadBalancer"))
               @@ ("LoadBalancerName" :> name)
               @@ ("Listeners.member.1.InstancePort" :> str(port))
               @@ ("Listeners.member.1.InstanceProtocol" :> protocol)
               @@ ("Listeners.member.1.LoadBalancerPort" :> str(port))
               @@ ("Listeners.member.1.Protocol" :> upper(protocol))
        azs    == IF zones = PyNone THEN PyList(<<PyStr(<<"a">>)>>) ELSE zones
        zone   == [i \in 1..Len(azs.items) |-> PyStr(Region \o azs.items[i].str)]
    IN  list_params(params, zone, "AvailabilityZones.member.", "")

create_balancer_params(name, port, protocol, zones) ==
    LET params == ("Action" :> Literal("CreateLoadBalancer"))
               @@ ("LoadBalancerName" :> name)
               @@ ("Listeners.member.1.InstancePort" :> str(port))
               @@ ("Listeners.member.1.InstanceProtocol" :> upper(protocol))
               @@ ("Listeners.member.1.LoadBalancerPort" :> str(port))
               @@ ("Listeners.member.1.Protocol" :> upper(protocol))
        azs    == IF zones = PyNone THEN PyList(<<PyStr(<<"a">>)>>) ELSE zones
        zone   == [i \in 1..Len(azs.items) |-> PyStr(Region \o azs.items[i].str)]
    IN  list_params(params, zone, "AvailabilityZones.member.", "")

\* v: the variable the caller assigns the result to
create_balancer(v, name, port, protocol, algorithm, members, ex_members_availability_zones) ==
    LET params == create_balancer_params(name, port, protocol, ex_members_availability_zones)
    IN  /\ call' = [op |-> "create_balancer", name |-> name, port |-> port,
                    protocol |-> protocol, algorithm |-> algorithm, members |-> members,
                    zones |-> ex_members_availability_zones]
        /\ requests' = <<params>>
        /\ \E reply \in Replies(params, provider) :
             /\ status' = reply.status
             /\ IF reply.raised
                THEN /\ result' = Raise("TransportError")
                     /\ UNCHANGED <<provider, balancers, lists, held>>
                ELSE LET balancer == LoadBalancer(name, name, "PENDING", findtext(reply.dns),
                                                  port, DriverRef)
                         new == keep(balancers, lists, held, v, balancer, <<>>)
                     IN  /\ provider' = Stored(params, provider)
                         /\ balancers' = new.balancers
                         /\ lists' = new.lists
                         /\ held' = new.held
                         /\ result' = Return(ObjValue(v))

destroy_balancer(b) ==
    LET params == ("Action" :> Literal("DeleteLoadBalancer"))
               @@ ("LoadBalancerName" :> balancers[b].id)
    IN  /\ call' = [op |-> "destroy_balancer", balancer |-> b]
        /\ requests' = <<params>>
        /\ \E reply \in Replies(params, provider) :
             /\ status' = reply.status
             /\ IF reply.raised
                THEN /\ result' = Raise("TransportError")
                     /\ UNCHANGED provider
                ELSE /\ provider' = Stored(params, provider)
                     /\ result' = Return(BoolValue(TRUE))
        /\ UNCHANGED <<balancers, lists, held>>

\* v: the variable the caller assigns one of the balancers returned to
list_balancers(v) ==
    LET params == ("Action" :> Literal("DescribeLoadBalancers"))
    IN  /\ call' = [op |-> "list_balancers"]
        /\ requests' = <<params>>
        /\ \E reply \in Replies(params, provider) :
             /\ status' = reply.status
             /\ IF reply.raised
                THEN /\ result' = Raise("TransportError")
                     /\ UNCHANGED <<balancers, lists, held>>
                ELSE LET found == _to_balancers(reply.entries, v)
                     IN  IF found = <<>>
                         THEN /\ result' = Return(ObjsValue(<<>>))
                              /\ UNCHANGED <<balancers, lists, held>>
                         ELSE \E k \in DOMAIN found :
                                LET new == keep(balancers, lists, held, v,
                                                found[k].balancer, found[k].members)
                                IN  /\ balancers' = new.balancers
                                    /\ lists' = new.lists
                                    /\ held' = new.held
                                    /\ result' = Return(ObjsValue(
                                           [j \in 1..Len(found) |-> IF j = k THEN v ELSE ""]))
        /\ UNCHANGED provider

get_balancer(v, balancer_id) ==
    LET params == ("Action" :> Literal("DescribeLoadBalancers"))
               @@ ("LoadBalancerNames.member.1" :> balancer_id)
    IN  /\ call' = [op |-> "get_balancer", balancer_id |-> balancer_id]
        /\ requests' = <<params>>
        /\ \E reply \in Replies(params, provider) :
             /\ status' = reply.status
             /\ IF reply.raised
                THEN /\ result' = Raise("TransportError")
                     /\ UNCHANGED <<balancers, lists, held>>
                ELSE LET found == _to_balancers(reply.entries, v)
                     IN  IF found = <<>>
                         THEN \* [][0]
                              /\ result' = Raise("IndexError")
                              /\ UNCHANGED <<balancers, lists, held>>
                         ELSE LET new == keep(balancers, lists, held, v,
                                              found[1].balancer, found[1].members)
                              IN  /\ balancers' = new.balancers
                                  /\ lists' = new.lists
                                  /\ held' = new.held
                                  /\ result' = Return(ObjValue(v))
        /\ UNCHANGED provider

balancer_attach_compute_node(b, node) ==
    LET params == ("Action" :> Literal("RegisterInstancesWithLoadBalancer"))
               @@ ("LoadBalancerName" :> balancers[b].id)
               @@ ("Instances.member.1.InstanceId" :> node.id)
    IN  /\ Len(lists[balancers[b].members].items) < MaxMembers
        /\ call' = [op |-> "balancer_attach_compute_node", balancer |-> b, node |-> node]
        /\ requests' = <<params>>
        /\ \E reply \in Replies(params, provider) :
             /\ status' = reply.status
             /\ IF reply.raised
                THEN /\ result' = Raise("TransportError")
                     /\ UNCHANGED <<provider, lists>>
                ELSE /\ provider' = Stored(params, provider)
                     /\ lists' = append(lists, balancers[b].members,
                                        Member(node.id, PyNone, PyNone, DriverRef))
                     /\ result' = Return(NoValue)
        /\ UNCHANGED <<balancers, held>>

balancer_detach_member(b, member) ==
    LET params == ("Action" :> Literal("DeregisterInstancesFromLoadBalancer"))
               @@ ("LoadBalancerName" :> balancers[b].id)
               @@ ("Instances.member.1.InstanceId" :> member.id)
    IN  /\ call' = [op |-> "balancer_detach_member", balancer |-> b, member |-> member]
        /\ requests' = <<params>>
        /\ \E reply \in Replies(params, provider) :
             /\ status' = reply.status
             /\ IF reply.raised
                THEN /\ result' = Raise("TransportError")
                     /\ UNCHANGED <<provider, balancers, lists>>
                ELSE LET new == set_members(balancers, lists, held, b,
                                    without(lists[balancers[b].members].items, member))
                     IN  /\ provider' = Stored(params, provider)
                         /\ balancers' = new.balancers
                         /\ lists' = new.lists
                         /\ result' = Return(BoolValue(TRUE))
        /\ UNCHANGED held

\* retain: whether the caller holds on to the list returned
balancer_list_members(b, retain) ==
    /\ call' = [op |-> "balancer_list_members", balancer |-> b]
    /\ requests' = <<>>
    /\ status' = 0
    /\ result' = Return(ListValue(balancers[b].members))
    /\ held' = IF retain THEN [ref |-> balancers[b].members, b |-> b] ELSE held
    /\ lists' = Collect(lists, balancers, held')
    /\ UNCHANGED <<provider, balancers>>

(* ------------------- policy and listener operations ------------------- *)

\* faulty variant: any 2xx status counts as success
status_request_2xx(params) ==
    /\ requests' = <<params>>
    /\ \E reply \in Replies(params, provider) :
         /\ status' = reply.status
         /\ IF reply.raised
            THEN result' = Raise("TransportError")
            ELSE result' = Return(BoolValue(reply.status \div 100 = 2))
    /\ UNCHANGED <<provider, balancers, lists, held>>

\* the request of an operation that returns response.status == httplib.OK
status_request(params) ==
    /\ requests' = <<params>>
    /\ \E reply \in Replies(params, provider) :
         /\ status' = reply.status
         /\ IF reply.raised
            THEN result' = Raise("TransportError")
            ELSE result' = Return(BoolValue(reply.status = OK))
    /\ UNCHANGED <<provider, balancers, lists, held>>

\* policy_attributes: None, or the dict's items in iteration order
ex_create_balancer_policy(b, policy_name, policy_type, policy_attributes) ==
    LET params == ("Action" :> Literal("CreateLoadBalancerPolicy"))
               @@ ("LoadBalancerName" :> balancers[b].id)
               @@ ("PolicyName" :> policy_name)
               @@ ("PolicyTypeName" :> policy_type)
        items  == policy_attributes.items
        named  == list_params(params, [k \in DOMAIN items |-> items[k][1]],
                              "PolicyAttributes.member.", ".AttributeName")
        valued == list_params(named, [k \in DOMAIN items |-> items[k][2]],
                              "PolicyAttributes.member.", ".AttributeValue")
    IN  /\ call' = [op |-> "ex_create_balancer_policy", balancer |-> b,
                    policy_name |-> policy_name, policy_type |-> policy_type,
                    policy_attributes |-> policy_attributes]
        /\ status_request(IF policy_attributes # PyNone THEN valued ELSE params)

ex_delete_balancer_policy(b, policy_name) ==
    LET params == ("Action" :> Literal("DeleteLoadBalancerPolicy"))
               @@ ("LoadBalancerName" :> balancers[b].id)
               @@ ("PolicyName" :> policy_name)
    IN  /\ call' = [op |-> "ex_delete_balancer_policy", balancer |-> b,
                    policy_name |-> policy_name]
        /\ status_request(params)

\* faulty variant: no isinstance test, so a bare string is walked character by character
_create_list_params_untested(params, items, prefix, suffix) ==
    LET list == IF items.type = "str"
                THEN [k \in DOMAIN items.str |-> PyStr(<<items.str[k]>>)]
                ELSE items.items
    IN  list_params(params, list, prefix, suffix)

_create_list_params(params, items, prefix, suffix) ==
    LET list == IF items.type = "str" THEN <<items>> ELSE items.items
    IN  list_params(params, list, prefix, suffix)

ex_set_balancer_policies_listener(b, balancer_port, policies) ==
    LET params == ("Action" :> Literal("SetLoadBalancerPoliciesOfListener"))
               @@ ("LoadBalancerName" :> balancers[b].id)
               @@ ("LoadBalancerPort" :> str(balancer_port))
    IN  /\ call' = [op |-> "ex_set_balancer_policies_listener", balancer |-> b,
                    port |-> balancer_port, policies |-> policies]
        /\ status_request(IF Truthy(policies)
                          THEN _create_list_params(params, policies, "PolicyNames.member.", "")
                          ELSE params)

ex_set_balancer_policies_backend_server(b, instance_port, policies) ==
    LET params == ("Action" :> Literal("SetLoadBalancerPoliciesForBackendServer"))
               @@ ("LoadBalancerName" :> balancers[b].id)
               @@ ("InstancePort" :> str(instance_port))
    IN  /\ call' = [op |-> "ex_set_balancer_policies_backend_server", balancer |-> b,
                    port |-> instance_port, policies |-> policies]
        /\ status_request(IF Truthy(policies)
                          THEN _create_list_params(params, policies, "PolicyNames.member.", "")
                          ELSE params)

HTTPS == PyStr(<<"H", "T", "T", "P", "S">>)

SSL == PyStr(<<"S", "S", "L">>)

\* the body of the loop over enumerate(listeners), from listener i on: the
\* params built, or the error listener[3] raises on a tuple of three
RECURSIVE listener_params(_, _, _)
listener_params(params, listeners, i) ==
    IF i > Len(listeners) THEN [raised |-> FALSE, params |-> params]
    ELSE LET listener == listeners[i]
             protocol == upper(listener[3])
             p1 == SetItem(params, Fmt("Listeners.member.", i, ".LoadBalancerPort"), listener[1])
             p2 == SetItem(p1, Fmt("Listeners.member.", i, ".InstancePort"), listener[2])
             p3 == SetItem(p2, Fmt("Listeners.member.", i, ".Protocol"), listener[3])
         IN  IF protocol = HTTPS \/ protocol = SSL
             THEN IF Len(listener) < 4
                  THEN [raised |-> TRUE, params |-> p3]
                  ELSE listener_params(
                           SetItem(p3, Fmt("Listeners.member.", i, ".SSLCertificateId"),
                                   listener[4]),
                           listeners, i + 1)
             ELSE listener_params(p3, listeners, i + 1)

\* listeners: None, or a list of tuples
ex_create_balancer_listeners(b, listeners) ==
    LET params == ("Action" :> Literal("CreateLoadBalancerListeners"))
               @@ ("LoadBalancerName" :> balancers[b].id)
        built  == IF Truthy(listeners) THEN listener_params(params, listeners.items, 1)
                  ELSE [raised |-> FALSE, params |-> params]
    IN  /\ call' = [op |-> "ex_create_balancer_listeners", balancer |-> b,
                    listeners |-> listeners]
        /\ IF built.raised
           THEN /\ result' = Raise("IndexError")
                /\ requests' = <<>>
                /\ status' = 0
                /\ UNCHANGED <<provider, balancers, lists, held>>
           ELSE status_request(built.params)

(* --------------------------- specification ---------------------------- *)

Init ==
    /\ provider = [n \in Names |-> Absent]
    /\ balancers = [v \in CallerVars |-> NoObject]
    /\ lists = [r \in 1..NLists |-> FreeList]
    /\ held = NoHeld
    /\ call = [op |-> "__init__"]
    /\ result = Return(NoValue)
    /\ status = 0
    /\ requests = <<>>

NodeObjects == {[id |-> PyStr(n)] : n \in Nodes}

MemberObjects == {Member(PyStr(n), PyNone, PyNone, DriverRef) : n \in Nodes}

Ports == {PyInt(80), PyStr(<<"4", "4", "3">>)}

\* balancers and their ports are followed here with one node; the member
\* lists are followed with all nodes under SpecMembers
FirstNode == PyStr(<<"i", "1">>)

Next ==
    \/ \E v \in DOMAIN balancers, name \in Names, port \in Ports :
         create_balancer(v, PyStr(name), port, PyStr(<<"h", "t", "t", "p">>),
                         PyNone, PyList(<<>>), PyNone)
    \/ \E b \in Objects : destroy_balancer(b)
    \/ \E v \in DOMAIN balancers : list_balancers(v)
    \/ \E v \in DOMAIN balancers, name \in Names : get_balancer(v, PyStr(name))
    \/ \E b \in Objects, node \in NodeObjects :
         node.id = FirstNode /\ balancer_attach_compute_node(b, node)
    \/ \E b \in Objects, member \in MemberObjects :
         member.id = FirstNode /\ balancer_detach_member(b, member)
    \/ \E b \in Objects : balancer_list_members(b, FALSE)

Spec == Init /\ [][Next]_vars

(* ---- one balancer's member list, which the caller may hold on to ---- *)

NextMembers ==
    \/ \E v \in DOMAIN balancers :
         create_balancer(v, PyStr(NameOrder[1]), PyInt(80), PyStr(<<"h", "t", "t", "p">>),
                         PyNone, PyList(<<>>), PyNone)
    \/ \E v \in DOMAIN balancers : get_balancer(v, PyStr(NameOrder[1]))
    \/ \E v \in DOMAIN balancers : list_balancers(v)
    \/ \E b \in Objects, node \in NodeObjects : balancer_attach_compute_node(b, node)
    \/ \E b \in Objects, member \in MemberObjects : balancer_detach_member(b, member)
    \/ \E b \in Objects, retain \in BOOLEAN : balancer_list_members(b, retain)

SpecMembers == Init /\ [][NextMembers]_vars

(* ---- the requests built: create_balancer and the ex_ operations ---- *)

\* longest list of policy names passed
MaxPolicies == 2

\* longest list of listeners passed
MaxListeners == 2

\* longest list of availability-zone suffixes passed
MaxZones == 2

SeqsUpTo(S, n) == UNION {[1..k -> S] : k \in 0..n}

Protocols == {PyStr(<<"h", "t", "t", "p">>), PyStr(<<"T", "c", "p">>)}

ZoneArgs == {PyNone} \cup {PyList(z) : z \in SeqsUpTo({PyStr(<<"a">>), PyStr(<<"b">>)}, MaxZones)}

PolicyNames == {PyStr(<<"p", "1">>), PyStr(<<"p", "2">>)}

PolicyArgs ==
    {PyNone, PyStr(<<>>)} \cup PolicyNames
    \cup {PyList(ps) : ps \in SeqsUpTo(PolicyNames, MaxPolicies)}

AttributeArgs ==
    {PyNone, PyList(<<>>),
     PyList(<< <<PyStr(<<"k">>), PyStr(<<"v">>)>> >>),
     PyList(<< <<PyStr(<<"k">>), PyStr(<<"v">>)>>, <<PyStr(<<"l">>), PyStr(<<"w">>)>> >>)}

Cert == PyStr(<<"c", "e", "r", "t">>)

Listeners ==
    {<<PyInt(80), PyInt(8080), PyStr(<<"h", "t", "t", "p">>)>>,
     <<PyInt(443), PyInt(8443), PyStr(<<"h", "t", "t", "p", "s">>)>>,
     <<PyInt(443), PyInt(8443), PyStr(<<"H", "t", "t", "p", "s">>), Cert>>,
     <<PyInt(465), PyInt(25), PyStr(<<"S", "S", "L">>)>>}

ListenerArgs == {PyNone} \cup {PyList(ls) : ls \in SeqsUpTo(Listeners, MaxListeners)}

\* the arguments create_balancer does not transmit
Untransmitted ==
    {<<PyInt(0), PyList(<<>>)>>,
     <<PyInt(1), PyList(<<Member(PyStr(<<"i", "1">>), PyNone, PyNone, DriverRef)>>)>>}

NextCreate ==
    \/ \E v \in DOMAIN balancers, port \in Ports, protocol \in Protocols,
          unused \in Untransmitted, zones \in ZoneArgs :
         create_balancer(v, PyStr(NameOrder[1]), port, protocol, unused[1], unused[2], zones)
    \/ \E b \in Objects : destroy_balancer(b)

SpecCreate == Init /\ [][NextCreate]_vars

NextEx ==
    \/ \E v \in DOMAIN balancers, name \in Names :
         create_balancer(v, PyStr(name), PyInt(80), PyStr(<<"h", "t", "t", "p">>),
                         PyNone, PyList(<<>>), PyNone)
    \/ \E b \in Objects, name \in PolicyNames, attributes \in AttributeArgs :
         ex_create_balancer_policy(b, name, PyStr(<<"t">>), attributes)
    \/ \E b \in Objects, name \in PolicyNames : ex_delete_balancer_policy(b, name)
    \/ \E b \in Objects, policies \in PolicyArgs :
         ex_set_balancer_policies_listener(b, PyInt(80), policies)
    \/ \E b \in Objects, policies \in PolicyArgs :
         ex_set_balancer_policies_backend_server(b, PyInt(8080), policies)
    \/ \E b \in Objects, listeners \in ListenerArgs : ex_create_balancer_listeners(b, listeners)

SpecEx == Init /\ [][NextEx]_vars

(* ------------------------------- claims ------------------------------- *)

\* the member list of the balancer the caller keeps in variable b
MembersOf(bs, ls, b) == ls[bs[b].members].items

\* how many members of a list carry the id
CountId(items, id) == Cardinality({k \in DOMAIN items : items[k].id = id})

\* error kinds of the NotFound class
NotFoundErrors == {"NotFoundError", "LibcloudError"}

\* error kinds of the InvalidArgument class
InvalidArgumentErrors == {"InvalidArgumentError", "ValueError", "TypeError"}

\* C1: get_balancer, answered with a describe response, ends in a NotFound-class
\* error when the response holds no balancer and returns the first balancer
\* parsed when it holds one.
C1_GetBalancerNotFound ==
    (call.op = "get_balancer" /\ status # 0) =>
        LET data == Described(requests[1], provider)
        IN  IF data = <<>>
            THEN result.outcome = "raise" /\ result.exc \in NotFoundErrors
            ELSE /\ result.outcome = "return"
                 /\ result.value.kind = "balancer"
                 /\ balancers[result.value.obj].id = findtext(data[1].LoadBalancerName)

\* whether a listener tuple names a TLS protocol and carries no certificate id
LacksCertificate(listener) ==
    upper(listener[3]) \in {HTTPS, SSL} /\ Len(listener) < 4

\* C2: ex_create_balancer_listeners given an HTTPS or SSL listener (compared
\* without regard to case) that has no 4th element fails with an
\* InvalidArgument-class error and sends no request; given only other
\* 3-element listeners it sends its request without any SSLCertificateId key.
C2_ListenerWithoutCertificate ==
    (call.op = "ex_create_balancer_listeners" /\ Truthy(call.listeners)) =>
        LET ls == call.listeners.items
        IN  IF \E k \in DOMAIN ls : LacksCertificate(ls[k])
            THEN /\ result.outcome = "raise"
                 /\ result.exc \in InvalidArgumentErrors
                 /\ requests = <<>>
            ELSE /\ Len(requests) = 1
                 /\ \A k \in DOMAIN ls :
                      Len(ls[k]) < 4 =>
                        Fmt("Listeners.member.", k, ".SSLCertificateId")
                            \notin DOMAIN requests[1]

\* C3: after a successful balancer_attach_compute_node(b, n), the list that
\* balancer_list_members(b) returns holds exactly one Member with id n.id, and
\* the list step sends no request.
C3_AttachThenListOnce ==
    [][(/\ call.op = "balancer_attach_compute_node"
        /\ result.outcome = "return"
        /\ call'.op = "balancer_list_members"
        /\ call'.balancer = call.balancer)
       => (/\ requests' = <<>>
           /\ result'.outcome = "return"
           /\ CountId(lists'[result'.value.list].items, call.node.id) = 1)]_vars

\* C4: a successful balancer_detach_member(b, m) returns true and leaves b with
\* the members whose id is not m.id, all of them, in the order they had; when
\* no member had the id the member list is as before.
C4_DetachRemovesById ==
    [][(call'.op = "balancer_detach_member" /\ result'.outcome = "return")
       => LET b     == call'.balancer
              id    == call'.member.id
              old   == MembersOf(balancers, lists, b)
              new   == MembersOf(balancers', lists', b)
              stays == {k \in DOMAIN old : old[k].id # id}
              \* position in old of the j-th member that stays
              at(j) == CHOOSE k \in stays : Cardinality({i \in stays : i < k}) = j - 1
          IN  /\ result'.value = BoolValue(TRUE)
              /\ Len(new) = Cardinality(stays)
              /\ \A j \in DOMAIN new : new[j] = old[at(j)]
              /\ (CountId(old, id) = 0 => new = old)]_vars

\* C4 witness: a detach has returned and left two members in place.
C4_Witness ==
    /\ call.op = "balancer_detach_member"
    /\ result.outcome = "return"
    /\ Len(MembersOf(balancers, lists, call.balancer)) = 2
    /\ Len(provider[balancers[call.balancer].id.str].instances) = 1

\* C5: create_balancer(name, port, ...) followed by get_balancer(name) returns
\* a balancer whose id and name equal name and whose port equals port.
C5_CreateThenGet ==
    [][(/\ call.op = "create_balancer"
        /\ result.outcome = "return"
        /\ call'.op = "get_balancer"
        /\ call'.balancer_id = call.name
        /\ result'.outcome = "return")
       => LET got == balancers'[result'.value.obj]
          IN  /\ got.id = call.name
              /\ got.name = call.name
              /\ got.port = call.port]_vars

StatusOperations ==
    {"ex_create_balancer_policy", "ex_delete_balancer_policy",
     "ex_set_balancer_policies_listener", "ex_set_balancer_policies_backend_server",
     "ex_create_balancer_listeners"}

\* C6: a policy or listener operation that got a response returns true when
\* the response status is OK and false otherwise, and raises nothing.
C6_StatusDecidesResult ==
    (call.op \in StatusOperations /\ status # 0) =>
        /\ result.outcome = "return"
        /\ result.value.kind = "bool"
        /\ result.value.bool = (status = OK)

\* C6 witness: an operation has answered false to a status that is not OK.
C6_Witness ==
    /\ call.op \in StatusOperations
    /\ status = 400
    /\ result = Return(BoolValue(FALSE))

\* the policy names a policies argument stands for
PoliciesMeant(policies) ==
    CASE policies.type = "list" -> policies.items
      [] policies.type = "str" /\ policies.str # <<>> -> <<policies>>
      [] OTHER -> <<>>

\* C7: the two set-policies operations send one request; its PolicyNames.member
\* keys are none for an empty or falsy policies argument, 1..N holding the names
\* in order for a list of N names, and key 1 alone for a bare string.
C7_PolicyNameParams ==
    (call.op \in {"ex_set_balancer_policies_listener",
                  "ex_set_balancer_policies_backend_server"}) =>
        LET names == PoliciesMeant(call.policies)
            port  == IF call.op = "ex_set_balancer_policies_listener"
                     THEN "LoadBalancerPort" ELSE "InstancePort"
        IN  /\ Len(requests) = 1
            /\ DOMAIN requests[1] =
                 {"Action", "LoadBalancerName", port}
                 \cup {"PolicyNames.member." \o ToString(i) : i \in 1..Len(names)}
            /\ \A i \in 1..Len(names) :
                 requests[1]["PolicyNames.member." \o ToString(i)] = names[i]

\* C7 witness: two names were sent under keys 1 and 2 in the order given.
C7_Witness ==
    /\ call.op = "ex_set_balancer_policies_listener"
    /\ call.policies = PyList(<<PyStr(<<"p", "2">>), PyStr(<<"p", "1">>)>>)
    /\ result.outcome = "return"
    /\ requests[1]["PolicyNames.member.1"] = PyStr(<<"p", "2">>)
    /\ requests[1]["PolicyNames.member.2"] = PyStr(<<"p", "1">>)

\* C8: create_balancer sends one request with the keys AvailabilityZones.member.1
\* to N, key i holding the region followed by the i-th suffix (region + "a" alone
\* when no zones are given), and the same port and upper-cased protocol on both
\* sides of listener 1; the balancer returned is PENDING with no members,
\* whatever algorithm and members are.
C8_CreateRequest ==
    (call.op = "create_balancer") =>
        LET suffixes == IF call.zones = PyNone THEN <<PyStr(<<"a">>)>> ELSE call.zones.items
            zonekey(i) == "AvailabilityZones.member." \o ToString(i)
            p == requests[1]
        IN  /\ Len(requests) = 1
            /\ DOMAIN p =
                 {"Action", "LoadBalancerName",
                  "Listeners.member.1.InstancePort", "Listeners.member.1.InstanceProtocol",
                  "Listeners.member.1.LoadBalancerPort", "Listeners.member.1.Protocol"}
                 \cup {zonekey(i) : i \in 1..Len(suffixes)}
            /\ \A i \in 1..Len(suffixes) : p[zonekey(i)].str = Region \o suffixes[i].str
            /\ p["Listeners.member.1.InstancePort"] = p["Listeners.member.1.LoadBalancerPort"]
            /\ p["Listeners.member.1.LoadBalancerPort"].str
                 = (IF call.port.type = "int" THEN DecStr(call.port.int) ELSE call.port.str)
            /\ p["Listeners.member.1.InstanceProtocol"] = p["Listeners.member.1.Protocol"]
            /\ p["Listeners.member.1.Protocol"].str
                 = [k \in DOMAIN call.protocol.str |-> UpperChar(call.protocol.str[k])]
            /\ result.outcome = "return" =>
                 /\ balancers[result.value.obj].state = "PENDING"
                 /\ MembersOf(balancers, lists, result.value.obj) = <<>>

\* C8 witness: a balancer was created with zones b, a and a members argument.
C8_Witness ==
    /\ call.op = "create_balancer"
    /\ result.outcome = "return"
    /\ call.zones = PyList(<<PyStr(<<"b">>), PyStr(<<"a">>)>>)
    /\ call.members # PyList(<<>>)
    /\ call.protocol = PyStr(<<"T", "c", "p">>)
    /\ requests[1]["AvailabilityZones.member.2"] = PyStr(<<"e", "u", "1", "a">>)
    /\ requests[1]["Listeners.member.1.Protocol"] = PyStr(<<"T", "C", "P">>)

\* C9: every Member in the member list of a balancer refers back to that
\* LoadBalancer, whether it was parsed from a response or appended by attach.
C9_BackReference ==
    \A b \in Objects :
        \A k \in DOMAIN MembersOf(balancers, lists, b) :
            MembersOf(balancers, lists, b)[k].balancer = BalancerRef(b)

\* C10: a list obtained from balancer_list_members(b) stays equal to the member
\* list of b through later attaches and detaches.
C10_HeldListFollows ==
    held.ref # 0 => lists[held.ref].items = MembersOf(balancers, lists, held.b)

\* C10 amended: balancer_list_members returns the balancer's own list object;
\* attach appends to that object, so a list the caller holds that is b's list
\* is still b's list after it; detach binds a new list to b and leaves the
\* held one as it was.
C10_AttachInPlaceDetachRebinds ==
    [][/\ (call'.op = "balancer_list_members")
            => result'.value.list = balancers'[call'.balancer].members
       /\ (/\ call'.op = "balancer_attach_compute_node"
           /\ result'.outcome = "return"
           /\ held.ref # 0
           /\ held.ref = balancers[held.b].members)
            => (/\ held'.ref = balancers'[held.b].members
                /\ lists'[held.ref].items # lists[held.ref].items)
       /\ (/\ call'.op = "balancer_detach_member"
           /\ result'.outcome = "return"
           /\ held.ref # 0
           /\ held.ref = balancers[held.b].members)
            => (/\ held' = held
                /\ lists'[held.ref] = lists[held.ref]
                /\ balancers'[held.b].members # held.ref)]_vars

\* C10 witness: the caller holds a list that is no longer the balancer's, and
\* the two differ.
C10_Witness ==
    /\ held.ref # 0
    /\ held.ref # balancers[held.b].members
    /\ call.op = "balancer_attach_compute_node"
    /\ result.outcome = "return"
    /\ Len(lists[held.ref].items) = 2
    /\ Len(MembersOf(balancers, lists, held.b)) = 2
    /\ lists[held.ref].items # MembersOf(balancers, lists, held.b)

====
